---- MODULE Spec2Model ----
(***************************************************************************)
(* demo-customer-app (src/src/main.rs): three in-memory record stores      *)
(* (projects, tasks, customers), each a Vec behind a tokio RwLock, served  *)
(* by nine axum handlers (list / create / get-by-id per store) that run    *)
(* concurrently, one task per request.                                     *)
(*                                                                         *)
(* A handler is split at its only suspension point, the lock's .await.     *)
(* tokio::sync::RwLock is modelled by its documented behaviour: many       *)
(* readers or one writer, and a first-in first-out queue of waiters        *)
(* (write-preferring: nobody overtakes a queued waiter).                   *)
(* Uuid::new_v4() is modelled as returning a value it never returned       *)
(* before; Utc::now() as returning any reading of the wall clock.          *)
(***************************************************************************)
EXTENDS Integers, Sequences, FiniteSets, TLC

\* Number of concurrent callers (request tasks).
NProcs == 3
\* Number of identifiers Uuid::new_v4() can hand out before the model stops creating.
MaxIds == 2
\* Largest wall-clock reading.
MaxTime == 0

Procs == 1..NProcs
Ids == 1..MaxIds
Times == 0..MaxTime

VARIABLES
  projects,   \* AppState.projects: the Vec<Project>
  tasks,      \* AppState.tasks: the Vec<Task>
  customers,  \* AppState.customers: the Vec<Customer>
  readers,    \* per store: the tasks holding its RwLock shared
  writers,    \* per store: the tasks holding its RwLock exclusively
  waitq,      \* per store: the RwLock's FIFO queue of waiting tasks
  issued,     \* the identifiers Uuid::new_v4() has returned so far
  pc,         \* per caller: idle, built, waiting, locked
  handler,    \* per caller: the handler its request was routed to
  req,        \* per caller: the request (JSON body of a POST, id of a GET /:id)
  item,       \* per caller: the local `item` of a create handler
  out,        \* the response the latest step sent, if it sent one
  draw,       \* history, per caller: what new_v4() and now() returned to its create
  seen,       \* history, per caller: the records creates on its store had returned when it was invoked
  log,        \* history, per store: the creates that have returned
  preds       \* history, per identifier: the identifiers whose creates had returned when its create was invoked

vars == <<projects, tasks, customers, readers, writers, waitq, issued,
          pc, handler, req, item, out, draw, seen, log, preds>>

Stores == {"projects", "tasks", "customers"}

\* AppState: the Vec of one store.
Vec(s) ==
  CASE s = "projects" -> projects
    [] s = "tasks" -> tasks
    [] s = "customers" -> customers

ListHandlers == {"list_projects", "list_tasks", "list_customers"}
CreateHandlers == {"create_project", "create_task", "create_customer"}
GetHandlers == {"get_project", "get_task", "get_customer"}

\* The router: the store each handler works on.
StoreOf(h) ==
  CASE h \in {"list_projects", "create_project", "get_project"} -> "projects"
    [] h \in {"list_tasks", "create_task", "get_task"} -> "tasks"
    [] h \in {"list_customers", "create_customer", "get_customer"} -> "customers"

\* The access a handler asks its store's RwLock for: write() in create, read() otherwise.
ModeOf(h) == IF h \in CreateHandlers THEN "write" ELSE "read"

(***************************************************************************)
(* Requests.  A POST body is a JSON object; besides the fields of the      *)
(* Create*Request struct it may carry any other members, in particular a   *)
(* caller-supplied "id" and "created_at".  Field contents are not          *)
(* validated: empty strings, negative numbers, malformed email.            *)
(***************************************************************************)
ProjectBodies ==
  { [name |-> "apollo", status |-> "open", budget |-> 10],
    [name |-> "", status |-> "", budget |-> -5, id |-> 1, created_at |-> 0] }

TaskBodies ==
  { [title |-> "write spec", completed |-> FALSE, priority |-> 2],
    [title |-> "", completed |-> TRUE, priority |-> -1, id |-> 1, created_at |-> 0] }

CustomerBodies ==
  { [name |-> "ada", email |-> "ada@example.org", active |-> TRUE],
    [name |-> "", email |-> "not-an-email", active |-> FALSE, id |-> 1, created_at |-> 0] }

\* Path(id): any UUID, whether new_v4 has returned it yet or not.
PathIds == Ids

\* Json<CreateProjectRequest>: serde keeps the struct's fields and drops the rest.
CreateProjectRequest(body) == [f \in {"name", "status", "budget"} |-> body[f]]

\* Json<CreateTaskRequest>.
CreateTaskRequest(body) == [f \in {"title", "completed", "priority"} |-> body[f]]

\* Json<CreateCustomerRequest>.
CreateCustomerRequest(body) == [f \in {"name", "email", "active"} |-> body[f]]

\* An identifier source that can repeat itself.
new_v4_repeating == Ids

\* Uuid::new_v4(): the values it may return next.
new_v4 == Ids \ issued

\* Utc::now(): the readings it may return.
now == Times

\* A create that validates: a negative budget is raised to zero.
ProjectValidated(payload, uuid, t) ==
  [id |-> uuid, name |-> payload.name, status |-> payload.status,
   budget |-> IF payload.budget < 0 THEN 0 ELSE payload.budget, created_at |-> t]

\* The struct literal of create_project.
Project(payload, uuid, t) ==
  [id |-> uuid, name |-> payload.name, status |-> payload.status,
   budget |-> payload.budget, created_at |-> t]

\* The struct literal of create_task.
Task(payload, uuid, t) ==
  [id |-> uuid, title |-> payload.title, completed |-> payload.completed,
   priority |-> payload.priority, created_at |-> t]

\* The struct literal of create_customer.
Customer(payload, uuid, t) ==
  [id |-> uuid, name |-> payload.name, email |-> payload.email,
   active |-> payload.active, created_at |-> t]

NoReq == [void |-> TRUE]
NoItem == [void |-> TRUE]
NoDraw == [void |-> TRUE]
NoOut == [handler |-> "none"]

(***************************************************************************)
(* tokio::sync::RwLock, one per store.                                     *)
(***************************************************************************)
\* One lock around the whole AppState instead of one per store.
LockOfAppState(s) ==
  [readers |-> UNION {readers[x] : x \in Stores},
   writers |-> UNION {writers[x] : x \in Stores},
   waitq |-> waitq[s]]

\* AppState: the RwLock of one store.
LockOf(s) == [readers |-> readers[s], writers |-> writers[s], waitq |-> waitq[s]]

Holders(lk) == lk.readers \cup lk.writers

\* A lock whose writers do not wait for the readers to leave.
CompatibleWriteAmongReaders(lk, mode) == lk.writers = {}

\* Whether the holders of the lock admit one more holder of this mode.
Compatible(lk, mode) ==
  IF mode = "read" THEN lk.writers = {}
  ELSE lk.writers = {} /\ lk.readers = {}

\* A read-preferring lock: a reader overtakes the queue whenever no writer holds the lock.
CanAcquireReadFirst(lk, mode) ==
  IF mode = "read" THEN lk.writers = {}
  ELSE lk.waitq = <<>> /\ lk.writers = {} /\ lk.readers = {}

\* Whether read()/write() returns its guard at once: nobody is queued ahead.
CanAcquire(lk, mode) == lk.waitq = <<>> /\ Compatible(lk, mode)

Hold(lk, p, mode) ==
  IF mode = "read" THEN [lk EXCEPT !.readers = @ \cup {p}]
  ELSE [lk EXCEPT !.writers = @ \cup {p}]

\* A lock that hands a reader its guard even while a writer holds it.
AcquireReadThrough(lk, p, mode) ==
  IF mode = "read" \/ CanAcquire(lk, mode) THEN Hold(lk, p, mode)
  ELSE [lk EXCEPT !.waitq = Append(@, p)]

\* read().await / write().await: take the lock or join the queue.
Acquire(lk, p, mode) ==
  IF CanAcquire(lk, mode) THEN Hold(lk, p, mode)
  ELSE [lk EXCEPT !.waitq = Append(@, p)]

\* Released permits go to the queue's head, in order, as far as they reach.
RECURSIVE Wake(_)
Wake(lk) ==
  IF lk.waitq # <<>> /\ Compatible(lk, ModeOf(handler[Head(lk.waitq)]))
  THEN Wake(Hold([lk EXCEPT !.waitq = Tail(@)], Head(lk.waitq),
                 ModeOf(handler[Head(lk.waitq)])))
  ELSE lk

\* Dropping the guard.
Release(lk, p) ==
  Wake([lk EXCEPT !.readers = @ \ {p}, !.writers = @ \ {p}])

SetLock(s, lk) ==
  /\ readers' = [readers EXCEPT ![s] = lk.readers]
  /\ writers' = [writers EXCEPT ![s] = lk.writers]
  /\ waitq' = [waitq EXCEPT ![s] = lk.waitq]

(***************************************************************************)
(* Steps shared by the handlers.                                           *)
(***************************************************************************)
\* History: the records creates on store s have returned.
Returned(s) == {e.rec : e \in log[s]}

IdsOf(records) == {r.id : r \in records}

\* A request is routed to handler h: the caller's task starts running it.
Enter(p, h, r, known) ==
  /\ pc[p] = "idle"
  /\ handler' = [handler EXCEPT ![p] = h]
  /\ req' = [req EXCEPT ![p] = r]
  /\ seen' = [seen EXCEPT ![p] = known]

\* state.<store>.read().await or .write().await: the handler's suspension point.
Lock(p, s, mode) ==
  LET lk == Acquire(LockOf(s), p, mode) IN
  /\ SetLock(s, lk)
  /\ pc' = [pc EXCEPT ![p] = IF p \in Holders(lk) THEN "locked" ELSE "waiting"]

\* The guard is dropped and the handler returns; the waiters the release
\* reaches now hold the lock.
Unlock(p, s) ==
  LET lk == Release(LockOf(s), p) IN
  /\ SetLock(s, lk)
  /\ pc' = [q \in Procs |->
              IF q = p THEN "idle"
              ELSE IF q \in Holders(lk) \ Holders(LockOf(s)) THEN "locked"
              ELSE pc[q]]

\* What a task reads through its guard.  While another task holds the lock
\* exclusively the Vec is being written: the read may see the element half-written.
Deref(s, vec) ==
  IF writers[s] = {} THEN {vec}
  ELSE {vec} \cup {Append(vec, [id |-> item[w].id, torn |-> TRUE]) : w \in writers[s]}

\* A push at the wrong end: vec.insert(0, item).
PushFront(vec, x) == <<x>> \o vec

\* A lost update: the new element overwrites the last one.
PushOver(vec, x) == IF vec = <<>> THEN <<x>> ELSE [vec EXCEPT ![Len(vec)] = x]

\* Vec::push(item.clone()).
Push(vec, x) == Append(vec, x)

\* Json(items.clone()).
ListResponse(items) == [status |-> 200, body |-> items]

\* (StatusCode::CREATED, Json(item)).
CreateResponse(x) == [status |-> 201, body |-> x]

\* An off-by-one scan: items.iter().skip(1).find(..).
GetResponseSkip(items, id) ==
  LET hits == {i \in 2..Len(items) : items[i].id = id} IN
  IF hits # {}
  THEN [status |-> 200, body |-> items[CHOOSE i \in hits : \A j \in hits : i <= j]]
  ELSE [status |-> 404]

\* A scan that falls back to the first element instead of NOT_FOUND.
GetResponseOrFirst(items, id) ==
  LET hits == {i \in 1..Len(items) : items[i].id = id} IN
  IF hits # {}
  THEN [status |-> 200, body |-> items[CHOOSE i \in hits : \A j \in hits : i <= j]]
  ELSE IF items # <<>> THEN [status |-> 200, body |-> items[1]]
  ELSE [status |-> 404]

\* items.iter().find(|i| i.id == id), then Ok(Json(item.clone())) or Err(NOT_FOUND).
GetResponse(items, id) ==
  LET hits == {i \in 1..Len(items) : items[i].id = id} IN
  IF hits # {}
  THEN [status |-> 200, body |-> items[CHOOSE i \in hits : \A j \in hits : i <= j]]
  ELSE [status |-> 404]

\* The first statements of a create handler, up to the lock: the item is built.
Build(p, h, body, x, uuid, t) ==
  /\ Enter(p, h, body, {})
  /\ item' = [item EXCEPT ![p] = x]
  /\ draw' = [draw EXCEPT ![p] = [uuid |-> uuid, t |-> t]]
  /\ issued' = issued \cup {uuid}
  /\ preds' = [preds EXCEPT ![uuid] = IdsOf(Returned(StoreOf(h)))]
  /\ pc' = [pc EXCEPT ![p] = "built"]
  /\ out' = NoOut

\* The handler returns: its response goes to the caller, whose task ends.
Respond(p, response) ==
  /\ out' = [caller |-> p, handler |-> handler[p], req |-> req[p],
             seen |-> seen[p], response |-> response]
  /\ handler' = [handler EXCEPT ![p] = "none"]
  /\ req' = [req EXCEPT ![p] = NoReq]
  /\ item' = [item EXCEPT ![p] = NoItem]
  /\ draw' = [draw EXCEPT ![p] = NoDraw]
  /\ seen' = [seen EXCEPT ![p] = {}]

\* History: a create has returned `response` to its caller.
Created(p, s, response) ==
  log' = [log EXCEPT ![s] = @ \cup {[body |-> req[p], uuid |-> draw[p].uuid,
                                     t |-> draw[p].t, rec |-> response.body]}]

(***************************************************************************)
(* The handlers.  Each is the disjunction of its steps, in program order.  *)
(***************************************************************************)
\* GET /projects
list_projects(p) ==
  \/ /\ Enter(p, "list_projects", NoReq, Returned("projects"))
     /\ Lock(p, "projects", "read")
     /\ out' = NoOut
     /\ UNCHANGED <<projects, tasks, customers, issued, item, draw, log, preds>>
  \/ /\ pc[p] = "locked" /\ handler[p] = "list_projects"
     /\ \E items \in Deref("projects", projects) : Respond(p, ListResponse(items))
     /\ Unlock(p, "projects")
     /\ UNCHANGED <<projects, tasks, customers, issued, log, preds>>

\* POST /projects
create_project(p) ==
  \/ /\ \E body \in ProjectBodies, uuid \in new_v4, t \in now :
          Build(p, "create_project", body, Project(CreateProjectRequest(body), uuid, t), uuid, t)
     /\ UNCHANGED <<projects, tasks, customers, readers, writers, waitq, log>>
  \/ /\ pc[p] = "built" /\ handler[p] = "create_project"
     /\ Lock(p, "projects", "write")
     /\ out' = NoOut
     /\ UNCHANGED <<projects, tasks, customers, issued, handler, req, item, draw, seen, log, preds>>
  \/ /\ pc[p] = "locked" /\ handler[p] = "create_project"
     /\ projects' = Push(projects, item[p])
     /\ Respond(p, CreateResponse(item[p]))
     /\ Created(p, "projects", CreateResponse(item[p]))
     /\ Unlock(p, "projects")
     /\ UNCHANGED <<tasks, customers, issued, preds>>

\* GET /projects/:id
get_project(p) ==
  \/ /\ \E id \in PathIds :
          Enter(p, "get_project", [id |-> id], {r \in Returned("projects") : r.id = id})
     /\ Lock(p, "projects", "read")
     /\ out' = NoOut
     /\ UNCHANGED <<projects, tasks, customers, issued, item, draw, log, preds>>
  \/ /\ pc[p] = "locked" /\ handler[p] = "get_project"
     /\ \E items \in Deref("projects", projects) : Respond(p, GetResponse(items, req[p].id))
     /\ Unlock(p, "projects")
     /\ UNCHANGED <<projects, tasks, customers, issued, log, preds>>

\* GET /tasks
list_tasks(p) ==
  \/ /\ Enter(p, "list_tasks", NoReq, Returned("tasks"))
     /\ Lock(p, "tasks", "read")
     /\ out' = NoOut
     /\ UNCHANGED <<projects, tasks, customers, issued, item, draw, log, preds>>
  \/ /\ pc[p] = "locked" /\ handler[p] = "list_tasks"
     /\ \E items \in Deref("tasks", tasks) : Respond(p, ListResponse(items))
     /\ Unlock(p, "tasks")
     /\ UNCHANGED <<projects, tasks, customers, issued, log, preds>>

\* POST /tasks
create_task(p) ==
  \/ /\ \E body \in TaskBodies, uuid \in new_v4, t \in now :
          Build(p, "create_task", body, Task(CreateTaskRequest(body), uuid, t), uuid, t)
     /\ UNCHANGED <<projects, tasks, customers, readers, writers, waitq, log>>
  \/ /\ pc[p] = "built" /\ handler[p] = "create_task"
     /\ Lock(p, "tasks", "write")
     /\ out' = NoOut
     /\ UNCHANGED <<projects, tasks, customers, issued, handler, req, item, draw, seen, log, preds>>
  \/ /\ pc[p] = "locked" /\ handler[p] = "create_task"
     /\ tasks' = Push(tasks, item[p])
     /\ Respond(p, CreateResponse(item[p]))
     /\ Created(p, "tasks", CreateResponse(item[p]))
     /\ Unlock(p, "tasks")
     /\ UNCHANGED <<projects, customers, issued, preds>>

\* GET /tasks/:id
get_task(p) ==
  \/ /\ \E id \in PathIds :
          Enter(p, "get_task", [id |-> id], {r \in Returned("tasks") : r.id = id})
     /\ Lock(p, "tasks", "read")
     /\ out' = NoOut
     /\ UNCHANGED <<projects, tasks, customers, issued, item, draw, log, preds>>
  \/ /\ pc[p] = "locked" /\ handler[p] = "get_task"
     /\ \E items \in Deref("tasks", tasks) : Respond(p, GetResponse(items, req[p].id))
     /\ Unlock(p, "tasks")
     /\ UNCHANGED <<projects, tasks, customers, issued, log, preds>>

\* GET /customers
list_customers(p) ==
  \/ /\ Enter(p, "list_customers", NoReq, Returned("customers"))
     /\ Lock(p, "customers", "read")
     /\ out' = NoOut
     /\ UNCHANGED <<projects, tasks, customers, issued, item, draw, log, preds>>
  \/ /\ pc[p] = "locked" /\ handler[p] = "list_customers"
     /\ \E items \in Deref("customers", customers) : Respond(p, ListResponse(items))
     /\ Unlock(p, "customers")
     /\ UNCHANGED <<projects, tasks, customers, issued, log, preds>>

\* POST /customers
create_customer(p) ==
  \/ /\ \E body \in CustomerBodies, uuid \in new_v4, t \in now :
          Build(p, "create_customer", body, Customer(CreateCustomerRequest(body), uuid, t), uuid, t)
     /\ UNCHANGED <<projects, tasks, customers, readers, writers, waitq, log>>
  \/ /\ pc[p] = "built" /\ handler[p] = "create_customer"
     /\ Lock(p, "customers", "write")
     /\ out' = NoOut
     /\ UNCHANGED <<projects, tasks, customers, issued, handler, req, item, draw, seen, log, preds>>
  \/ /\ pc[p] = "locked" /\ handler[p] = "create_customer"
     /\ customers' = Push(customers, item[p])
     /\ Respond(p, CreateResponse(item[p]))
     /\ Created(p, "customers", CreateResponse(item[p]))
     /\ Unlock(p, "customers")
     /\ UNCHANGED <<projects, tasks, issued, preds>>

\* GET /customers/:id
get_customer(p) ==
  \/ /\ \E id \in PathIds :
          Enter(p, "get_customer", [id |-> id], {r \in Returned("customers") : r.id = id})
     /\ Lock(p, "customers", "read")
     /\ out' = NoOut
     /\ UNCHANGED <<projects, tasks, customers, issued, item, draw, log, preds>>
  \/ /\ pc[p] = "locked" /\ handler[p] = "get_customer"
     /\ \E items \in Deref("customers", customers) : Respond(p, GetResponse(items, req[p].id))
     /\ Unlock(p, "customers")
     /\ UNCHANGED <<projects, tasks, customers, issued, log, preds>>

\* AppState::new(), and no request in flight.
Init ==
  /\ projects = <<>>
  /\ tasks = <<>>
  /\ customers = <<>>
  /\ readers = [s \in Stores |-> {}]
  /\ writers = [s \in Stores |-> {}]
  /\ waitq = [s \in Stores |-> <<>>]
  /\ issued = {}
  /\ pc = [p \in Procs |-> "idle"]
  /\ handler = [p \in Procs |-> "none"]
  /\ req = [p \in Procs |-> NoReq]
  /\ item = [p \in Procs |-> NoItem]
  /\ out = NoOut
  /\ draw = [p \in Procs |-> NoDraw]
  /\ seen = [p \in Procs |-> {}]
  /\ log = [s \in Stores |-> {}]
  /\ preds = [i \in Ids |-> {}]

\* The router of main(): one task per request.
Route(p) ==
  \/ list_projects(p)
  \/ create_project(p)
  \/ get_project(p)
  \/ list_tasks(p)
  \/ create_task(p)
  \/ get_task(p)
  \/ list_customers(p)
  \/ create_customer(p)
  \/ get_customer(p)

Next == \E p \in Procs : Route(p)

Spec == Init /\ [][Next]_vars

\* A task that is not waiting for a lock keeps running (the runtime's
\* scheduler polls every ready task); clients need not send requests.
Running(p) == pc[p] \in {"built", "locked"} /\ Route(p)

\* No handler's control flow reads the request's contents, so for progress
\* one body per store and one path identifier stand for all of them.
Plain ==
  \A p \in Procs :
    /\ handler[p] \in GetHandlers => req[p].id = 1
    /\ handler[p] \in CreateHandlers => "id" \notin DOMAIN req[p]

LiveNext ==
  \E p \in Procs :
    \/ list_projects(p) /\ Plain'
    \/ create_project(p) /\ Plain'
    \/ get_project(p) /\ Plain'
    \/ list_tasks(p) /\ Plain'
    \/ create_task(p) /\ Plain'
    \/ get_task(p) /\ Plain'
    \/ list_customers(p) /\ Plain'
    \/ create_customer(p) /\ Plain'
    \/ get_customer(p) /\ Plain'

FairSpec == Init /\ [][LiveNext]_vars /\ \A p \in Procs : WF_vars(Running(p))

(***************************************************************************)
(* Vocabulary of the properties.                                           *)
(***************************************************************************)
IsPrefix(a, b) == Len(a) <= Len(b) /\ \A i \in 1..Len(a) : a[i] = b[i]

Elems(seq) == {seq[i] : i \in 1..Len(seq)}

UserFields(s) ==
  CASE s = "projects" -> {"name", "status", "budget"}
    [] s = "tasks" -> {"title", "completed", "priority"}
    [] s = "customers" -> {"name", "email", "active"}

\* The step is caller p's own: it enters a handler, asks for the lock, or returns.
Enters(p) == pc[p] = "idle" /\ pc'[p] # "idle"
Asks(p) == (Enters(p) /\ handler'[p] \notin CreateHandlers) \/ (pc[p] = "built" /\ pc'[p] # "built")
Returns(p) == pc[p] = "locked" /\ pc'[p] = "idle"

(***************************************************************************)
(* Properties.                                                             *)
(***************************************************************************)
\* C1: a list returns exactly the records of the creates that have completed
\* on its store (N records after N creates), all those that had returned when
\* it was invoked among them, in the order they were appended; a record whose
\* create returned before another create was invoked comes before that one's.
C1_ListCountAndOrder ==
  out.handler \in ListHandlers =>
    LET s == StoreOf(out.handler)
        body == out.response.body
    IN /\ out.response.status = 200
       /\ body = Vec(s)
       /\ Len(body) = Cardinality(log[s])
       /\ Elems(body) = Returned(s)
       /\ out.seen \subseteq Elems(body)
       /\ \A i, j \in 1..Len(body) : body[j].id \in preds[body[i].id] => j < i

\* A list returned two records, the first created (and returned) before the
\* second's create was invoked, both before the list was invoked.
C1_Witness ==
  /\ out.handler \in ListHandlers
  /\ Len(out.response.body) = 2
  /\ Cardinality(out.seen) = 2
  /\ out.response.body[1].id \in preds[out.response.body[2].id]

\* C2: a get-by-id with the identifier of a record that a create on the same
\* store had returned when the get was invoked returns 200 with that record,
\* equal in every field.
C2_GetReturnsCreated ==
  out.handler \in GetHandlers =>
    \A r \in Returned(StoreOf(out.handler)) :
      (r \in out.seen /\ r.id = out.req.id) => out.response = [status |-> 200, body |-> r]

\* A get found the record of an earlier create behind another record of the store.
C2_Witness ==
  /\ out.handler \in GetHandlers
  /\ out.seen # {}
  /\ out.response.status = 200
  /\ Len(Vec(StoreOf(out.handler))) = 2
  /\ Vec(StoreOf(out.handler))[2] = out.response.body

\* C3: however creates interleave, a store holds exactly one record per create
\* that has returned, each returned record exactly once, and the identifiers in
\* it are pairwise distinct.
C3_NoLostNoDuplicate ==
  \A s \in Stores :
    /\ Len(Vec(s)) = Cardinality(log[s])
    /\ \A e \in log[s] : Cardinality({i \in 1..Len(Vec(s)) : Vec(s)[i] = e.rec}) = 1
    /\ \A i, j \in 1..Len(Vec(s)) : Vec(s)[i].id = Vec(s)[j].id => i = j

\* Two creates on one store overlapped in time (the first to append had not
\* returned when the second was invoked, and drew its identifier later) and both are stored.
C3_Witness ==
  \E s \in Stores :
    /\ Len(Vec(s)) = 2
    /\ Vec(s)[1].id \notin preds[Vec(s)[2].id]
    /\ \E p \in Procs : pc[p] = "idle"

\* History: the identifiers creates on store s have assigned so far.
Assigned(s) ==
  IdsOf(Returned(s)) \cup
  {item[p].id : p \in {q \in Procs : handler[q] \in CreateHandlers /\ StoreOf(handler[q]) = s}}

\* C4: a get-by-id with an identifier that no create on its store has assigned
\* returns 404; it returns a record only if that record is in the store and
\* has the identifier asked for; and no step of a get changes any store.
C4_GetUnknownNotFound ==
  /\ [](out.handler \in GetHandlers =>
         LET s == StoreOf(out.handler) IN
         /\ out.req.id \notin Assigned(s) => out.response = [status |-> 404]
         /\ out.response.status \in {200, 404}
         /\ out.response.status = 200 =>
              out.response.body \in Elems(Vec(s)) /\ out.response.body.id = out.req.id)
  /\ [][\A p \in Procs :
          ((Enters(p) /\ handler'[p] \in GetHandlers) \/ (Returns(p) /\ handler[p] \in GetHandlers))
          => UNCHANGED <<projects, tasks, customers>>]_vars

\* A get on a store holding records returned 404 for an identifier that
\* another store has assigned but this one has not.
C4_Witness ==
  /\ out.handler \in GetHandlers
  /\ out.response.status = 404
  /\ Vec(StoreOf(out.handler)) # <<>>
  /\ \E s \in Stores : out.req.id \in IdsOf(Elems(Vec(s)))

\* C5: every store is append-only: each step leaves the old sequence as a
\* prefix of the new one, and only the returning step of a create on that
\* store changes it (by one record).
C5_AppendOnly ==
  [][\A s \in Stores :
       /\ IsPrefix(Vec(s), Vec(s)')
       /\ Vec(s)' # Vec(s) =>
            /\ Len(Vec(s)') = Len(Vec(s)) + 1
            /\ \E p \in Procs : /\ Returns(p)
                                /\ handler[p] \in CreateHandlers
                                /\ StoreOf(handler[p]) = s]_vars

\* A store has grown to two records and a get on it has just returned.
C5_Witness ==
  /\ out.handler \in GetHandlers
  /\ Len(Vec(StoreOf(out.handler))) = 2

\* C6: per store, at most one task holds the lock exclusively and then none
\* holds it shared; the exclusive holder is a create on that store, the
\* shared holders are its lists and gets; holders are exactly the tasks past
\* the lock.
C6_ReadersWriterExclusion ==
  \A s \in Stores :
    /\ Cardinality(writers[s]) <= 1
    /\ writers[s] # {} => readers[s] = {}
    /\ \A p \in writers[s] : handler[p] \in CreateHandlers /\ StoreOf(handler[p]) = s
    /\ \A p \in readers[s] : handler[p] \in ListHandlers \cup GetHandlers /\ StoreOf(handler[p]) = s
    /\ \A p \in Procs :
         (pc[p] = "locked" /\ StoreOf(handler[p]) = s) <=> p \in readers[s] \cup writers[s]

\* Two lists hold one store's lock shared at the same time.
C6_Witness ==
  \E s \in Stores : Cardinality({p \in readers[s] : handler[p] \in ListHandlers}) >= 2

\* C7: a list's result is the whole store as it stands when the list returns,
\* a moment between its invocation and its return: it holds every record whose
\* create had returned when the list was invoked, every element of it is a
\* record exactly as its create returned it, and, stores only growing at the
\* end, it stays a prefix of every later state of the store.
C7_ListAtomicSnapshot ==
  /\ [](out.handler \in ListHandlers =>
         LET s == StoreOf(out.handler) IN
         /\ out.response.body = Vec(s)
         /\ out.seen \subseteq Elems(out.response.body)
         /\ Elems(out.response.body) \subseteq Returned(s))
  /\ [][\A s \in Stores : IsPrefix(Vec(s), Vec(s)')]_vars

\* A list that was invoked while its store held one record, and had to wait
\* for a create, returned both records.
C7_Witness ==
  /\ out.handler \in ListHandlers
  /\ Cardinality(out.seen) = 1
  /\ Len(out.response.body) = 2

\* C8: the stores are independent.  A caller's own step on one store leaves
\* the Vec and the lock (holders and queue) of the other two as they were; a
\* task asking for a lock gets it at once whenever that store's own lock is
\* compatible and has no queue, whatever is held elsewhere; and a task waits
\* only in the queue of its own store, behind a holder of that store's lock.
C8_StoresIndependent ==
  /\ [][\A p \in Procs :
          (Enters(p) \/ Asks(p) \/ Returns(p)) =>
            LET s == StoreOf(IF Enters(p) THEN handler'[p] ELSE handler[p]) IN
            /\ \A x \in Stores \ {s} :
                 /\ Vec(x)' = Vec(x)
                 /\ readers'[x] = readers[x]
                 /\ writers'[x] = writers[x]
                 /\ waitq'[x] = waitq[x]
            /\ (/\ Asks(p)
                /\ waitq[s] = <<>>
                /\ writers[s] = {}
                /\ (ModeOf(handler'[p]) = "write" => readers[s] = {}))
               => pc'[p] = "locked" /\ p \in readers'[s] \cup writers'[s]]_vars
  /\ [](\A p \in Procs :
          pc[p] = "waiting" =>
            /\ readers[StoreOf(handler[p])] \cup writers[StoreOf(handler[p])] # {}
            /\ \A s \in Stores :
                 p \in Elems(waitq[s]) <=> s = StoreOf(handler[p]))

\* Three tasks hold the three stores' locks at once, two of them exclusively.
C8_Witness ==
  /\ writers["projects"] # {}
  /\ writers["tasks"] # {}
  /\ readers["customers"] # {}

\* The locks caller p holds.
Held(p) == {s \in Stores : p \in readers[s] \cup writers[s]}

\* C9: under fair scheduling of the running tasks every request returns (each
\* caller is again and again without a request in flight), for creates as for
\* lists and gets.  A task waits nowhere but at its lock: before and after it
\* a step of its own is enabled.  It holds at most one lock and none once it
\* has returned, and whoever waits, waits behind a task that holds the lock
\* and is running.
C9_EveryRequestCompletes ==
  /\ \A p \in Procs : []<>(pc[p] = "idle")
  /\ [](\A p \in Procs :
          /\ Cardinality(Held(p)) <= 1
          /\ pc[p] \in {"idle", "built", "waiting"} => Held(p) = {}
          /\ pc[p] \in {"built", "locked"} => ENABLED Running(p)
          /\ pc[p] = "waiting" =>
               \E q \in Procs : /\ pc[q] = "locked"
                                /\ StoreOf(handler[q]) \in Held(q)
                                /\ StoreOf(handler[q]) = StoreOf(handler[p]))

\* A create waits for readers to leave, with a later reader queued behind it.
C9_Witness ==
  \E s \in Stores :
    /\ readers[s] # {}
    /\ Len(waitq[s]) = 2
    /\ handler[waitq[s][1]] \in CreateHandlers
    /\ handler[waitq[s][2]] \in ListHandlers

====
